---- MODULE Spec2Model ----
(***************************************************************************)
(* i3firefox.py: keep Firefox windows on their i3 workspaces.              *)
(*                                                                         *)
(* The model holds the Cache object (its three collections), the position  *)
(* of the process inside main() / persist(), and the persistence file and  *)
(* the staging file on disk.  The i3 connection is the environment: it     *)
(* calls one handler at a time with an event container, answers the tree   *)
(* queries of the handlers and takes their move commands.  It sends        *)
(* window::new for a container the tree did not hold and the other events  *)
(* for containers the tree holds.  A handler runs to completion, persist() *)
(* included, before the next event is delivered.                           *)
(*                                                                         *)
(* Spec takes every handler as one step.  SpecSteps takes persist() one    *)
(* file operation at a time and lets the process stop between any two.     *)
(* SpecRuns is Spec with the process ended and started again, a later run   *)
(* followed through startup and its first event.                           *)
(***************************************************************************)
EXTENDS Integers, Sequences, FiniteSets, TLC

\* ---------------------------------------------------------------- bounds
MaxRecords == 3       \* closed and active windows held at a time
MaxStartWindows == 1  \* firefox windows open when main() starts
MaxInitDoc == 1       \* entries of the persistence file found at first startup
MaxEndRecords == 2    \* closed and active windows of a run that is followed by another

Ids == {1, 2}                     \* container ids the window manager hands out
Workspaces == {"1", "2"}
Titles == {"A", "B"}              \* titles of firefox windows
OtherTitle == "C"                 \* title of the windows of other programs
Classes == {"firefox", "other"}
Instance == "Navigator"
Role == "browser"

None == 0             \* Window.id of a record that refers to no live window
NoCon == "-"          \* the tree holds no container with this id
NoWs == "-"           \* no workspace: nothing queried, nothing seen
NoTitle == "-"
Absent == [kind |-> "absent"]     \* no file at this path
Empty == [kind |-> "empty"]       \* a file of zero bytes
Unreadable == [kind |-> "unreadable"]  \* a file that read_text() cannot read

VARIABLES
    closed,      \* Cache._closed_windows: sequence of Window, id = None
    active,      \* Cache._active_windows: dict in insertion order, as a sequence of Window
    unknown,     \* Cache._unknown_windows: set of ids
    pc,          \* position of the process
    file,        \* content of <state_dir>/i3firefox.json
    tmp,         \* content of the staging file while it has its temporary name
    classOf,     \* the tree: window_class of each container, NoCon if it holds none
    grain,       \* "handler": persist() is one step; "steps": one file operation a step
    ev,          \* the event the last handler was called with
    cmds,        \* the commands the last handler sent to the window manager
    lastSeen,    \* per title: workspace of the last tracked window closed with it (this run)
    persisted,   \* a persist() has completed in this run
    prevRun      \* what the run before this one ended with, NoRun in the first run

vars == <<closed, active, unknown, pc, file, tmp, classOf, grain, ev, cmds,
          lastSeen, persisted, prevRun>>

mem == <<closed, active, unknown>>

\* ------------------------------------------------------------ data model
Window(id, inst, role, title, ws) ==
    [id |-> id, window_instance |-> inst, window_role |-> role,
     window_title |-> title, workspace_name |-> ws]

Con(id, cls, title) ==
    [id |-> id, window_class |-> cls, window_instance |-> Instance,
     window_role |-> Role, window_title |-> title]

\* an event as a handler took it: the branch of the handler that ran, the
\* index of the closed window it matched (0: none) and the workspace the
\* tree query returned (NoWs: no query)
Event(kind, con, branch, match, actual) ==
    [kind |-> kind, con |-> con, branch |-> branch, match |-> match,
     actual |-> actual]

NoEvent == Event("start", Con(None, "other", NoTitle), "none", 0, NoWs)

\* main() has not run before
NoRun == [run |-> "none"]

DictSwapped(w) ==
    [instance |-> w.window_role, role |-> w.window_instance,
     title |-> w.window_title, workspace |-> w.workspace_name]

\* one element of the JSON array
Dict(w) ==
    [instance |-> w.window_instance, role |-> w.window_role,
     title |-> w.window_title, workspace |-> w.workspace_name]

Dicts == {[instance |-> Instance, role |-> Role, title |-> t, workspace |-> w] :
            t \in Titles, w \in Workspaces}

Full(doc) == [kind |-> "full", text |-> doc]
Partial(doc) == [kind |-> "partial", text |-> doc]

SeqsUpTo(S, n) == UNION {[1..k -> S] : k \in 0..n}

ActiveIds(act) == {act[i].id : i \in 1..Len(act)}

ActiveIndex(act, id) == CHOOSE i \in 1..Len(act) : act[i].id = id

\* self._active_windows.get(id)
ActiveGet(act, id) == act[ActiveIndex(act, id)]

\* self._active_windows[id] = w : an existing key keeps its position
ActiveSet(act, w) ==
    IF w.id \in ActiveIds(act)
    THEN [act EXCEPT ![ActiveIndex(act, w.id)] = w]
    ELSE Append(act, w)

\* self._active_windows.pop(id)
ActivePop(act, id) ==
    LET k == ActiveIndex(act, id)
    IN [i \in 1..(Len(act) - 1) |-> IF i < k THEN act[i] ELSE act[i + 1]]

serialize_active_first(cl, act) == [i \in 1..Len(act \o cl) |-> Dict((act \o cl)[i])]

\* Cache.serialize
serialize(cl, act) == [i \in 1..Len(cl \o act) |-> Dict((cl \o act)[i])]

ParseReversed(doc) ==
    [i \in 1..Len(doc) |->
        Window(None, doc[Len(doc) + 1 - i].instance, doc[Len(doc) + 1 - i].role,
               doc[Len(doc) + 1 - i].title, doc[Len(doc) + 1 - i].workspace)]

\* json.loads(state) and the list comprehension of Cache.deserialize
Parse(doc) ==
    [i \in 1..Len(doc) |->
        Window(None, doc[i].instance, doc[i].role, doc[i].title, doc[i].workspace)]

\* Cache.deserialize: the new _closed_windows
deserialize(cl, act, doc) == IF act # <<>> THEN cl ELSE Parse(doc)


LastMatch(cl, con) ==
    LET hits == {i \in 1..Len(cl) :
                    /\ cl[i].window_instance = con.window_instance
                    /\ cl[i].window_role = con.window_role
                    /\ cl[i].window_title = con.window_title}
    IN IF hits = {} THEN 0 ELSE CHOOSE i \in hits : \A j \in hits : i >= j

\* the first closed window with the container's instance, role and title,
\* as an index into cl; 0 stands for next(..., None)
FirstMatch(cl, con) ==
    LET hits == {i \in 1..Len(cl) :
                    /\ cl[i].window_instance = con.window_instance
                    /\ cl[i].window_role = con.window_role
                    /\ cl[i].window_title = con.window_title}
    IN IF hits = {} THEN 0 ELSE CHOOSE i \in hits : \A j \in hits : i <= j

Tracked(id) == id \in ActiveIds(active) /\ id \notin unknown

\* ---------------------------------------------------------------- persist
PersistWholeNoRewrite ==
    /\ file' = file
    /\ tmp' = Absent
    /\ persisted' = TRUE
    /\ pc' = "idle"

\* Cache.persist as one step of the handler that calls it
PersistWhole ==
    /\ file' = Full(serialize(closed', active'))
    /\ tmp' = Absent
    /\ persisted' = TRUE
    /\ pc' = "idle"

\* self.persist() at the end of a handler
persist ==
    IF grain = "handler"
    THEN PersistWhole
    ELSE /\ pc' = "persist"
         /\ UNCHANGED <<file, tmp, persisted>>

\* a handler returns without self.persist()
no_persist ==
    /\ pc' = "idle"
    /\ UNCHANGED <<file, tmp, persisted>>

\* Cache.persist up to and including NamedTemporaryFile(...): the staging
\* file exists and is empty
PersistCreate ==
    /\ pc = "persist"
    /\ tmp' = Empty
    /\ pc' = "created"
    /\ UNCHANGED <<mem, file, classOf, grain, prevRun, ev, cmds, lastSeen, persisted>>

\* tmpjson.write(state): the text goes to the file object's buffer; what has
\* reached the file itself is nothing, or whole buffer-sized chunks of it
PersistWrite ==
    /\ pc = "created"
    /\ tmp' \in {Empty, Partial(serialize(closed, active))}
    /\ pc' = "written"
    /\ UNCHANGED <<mem, file, classOf, grain, prevRun, ev, cmds, lastSeen, persisted>>

\* Path(tmpjson.name).replace(state_dir/'i3firefox.json')
PersistReplace ==
    /\ pc = "written"
    /\ file' = tmp
    /\ tmp' = Absent
    /\ pc' = "renamed"
    /\ UNCHANGED <<mem, classOf, grain, prevRun, ev, cmds, lastSeen, persisted>>

\* staging_file's finally: Path(f.name).unlink(missing_ok=True)
PersistCleanup ==
    /\ pc = "renamed"
    /\ tmp' = Absent
    /\ pc' = "cleaned"
    /\ UNCHANGED <<mem, file, classOf, grain, prevRun, ev, cmds, lastSeen, persisted>>

\* NamedTemporaryFile.__exit__: the buffer is flushed into the open file,
\* which by now carries the canonical name, and the file is closed
PersistClose ==
    /\ pc = "cleaned"
    /\ file' = Full(serialize(closed, active))
    /\ pc' = "idle"
    /\ persisted' = TRUE
    /\ UNCHANGED <<mem, tmp, classOf, grain, prevRun, ev, cmds, lastSeen>>

\* the process is ended between two operations of persist()
Stop ==
    /\ pc \in {"persist", "created", "written", "renamed", "cleaned"}
    /\ pc' = "stopped"
    /\ UNCHANGED <<mem, file, tmp, classOf, grain, prevRun, ev, cmds, lastSeen, persisted>>

\* ---------------------------------------------------------------- startup
\* conn.get_tree().find_classed('firefox'): firefox containers of the tree,
\* each with its title and workspace.  A container created after the query
\* and before conn.on(...) subscribes is in the tree and not in the answer.
Enumerations ==
    {e \in SeqsUpTo([id : Ids, window_title : Titles, workspace : Workspaces],
                    MaxStartWindows) :
        \A i, j \in 1..Len(e) : i # j => e[i].id # e[j].id}

\* Cache.__init__
CacheInit(ws) ==
    [closed |-> <<>>,
     active |-> [i \in 1..Len(ws) |->
                    Window(ws[i].id, Instance, Role, ws[i].window_title, ws[i].workspace)],
     unknown |-> {}]

InitFiles ==
    {Absent, Empty, Unreadable} \cup {Full(d) : d \in SeqsUpTo(Dicts, MaxInitDoc)}

\* main() up to cache = Cache(...)
Start(g) ==
    /\ grain = g
    /\ file \in InitFiles
    /\ tmp = Absent
    /\ classOf \in [Ids -> Classes \cup {NoCon}]
    /\ \E ws \in Enumerations :
          /\ \A i \in 1..Len(ws) : classOf[ws[i].id] = "firefox"
          /\ closed = CacheInit(ws).closed
          /\ active = CacheInit(ws).active
          /\ unknown = CacheInit(ws).unknown
    /\ pc = "constructed"
    /\ ev = NoEvent
    /\ cmds = <<>>
    /\ lastSeen = [t \in Titles |-> NoWs]
    /\ persisted = FALSE
    /\ prevRun = NoRun

Init == Start("handler")

InitSteps == Start("steps")

restore_unguarded ==
    /\ pc = "constructed"
    /\ IF file = Absent
       THEN /\ pc' = "idle"
            /\ UNCHANGED closed
       ELSE IF file.kind = "full"
       THEN /\ pc' = "idle"
            /\ closed' = Parse(file.text)
       ELSE /\ pc' = "crashed"
            /\ UNCHANGED closed
    /\ UNCHANGED <<active, unknown, file, tmp, classOf, grain, prevRun, ev, cmds, lastSeen, persisted>>

restore_unsuppressed ==
    /\ pc = "constructed"
    /\ IF active # <<>>
       THEN /\ pc' = "idle"
            /\ UNCHANGED closed
       ELSE IF file # Absent /\ file.kind = "full"
       THEN /\ pc' = "idle"
            /\ closed' = deserialize(closed, active, file.text)
       ELSE /\ pc' = "crashed"
            /\ UNCHANGED closed
    /\ UNCHANGED <<active, unknown, file, tmp, classOf, grain, prevRun, ev, cmds, lastSeen, persisted>>

\* Cache.restore, called once by main() right after the constructor
restore ==
    /\ pc = "constructed"
    /\ IF active # <<>>
       THEN /\ pc' = "idle"
            /\ UNCHANGED closed
       ELSE IF file = Absent
       THEN /\ pc' = "idle"                      \* suppress(FileNotFoundError)
            /\ UNCHANGED closed
       ELSE IF file.kind = "full"
       THEN /\ pc' = "idle"
            /\ closed' = deserialize(closed, active, file.text)
       ELSE /\ pc' = "crashed"                   \* PermissionError, UnicodeDecodeError
            /\ UNCHANGED closed                  \* or json.JSONDecodeError propagates
    /\ UNCHANGED <<active, unknown, file, tmp, classOf, grain, prevRun, ev, cmds, lastSeen, persisted>>

\* what a run that ends here leaves to be remembered: its closed windows
\* followed by its active windows, without their ids, how many of them are
\* closed windows, and whether it has persisted
EndedRun ==
    [run |-> "ended",
     records |-> [i \in 1..Len(closed \o active) |->
                     [(closed \o active)[i] EXCEPT !.id = None]],
     closed |-> Len(closed),
     persisted |-> persisted]

\* the process has ended between two events, or at startup, and main() is
\* run again; a second run is followed, a third is not
Restart ==
    /\ pc \in {"idle", "crashed"}
    /\ Len(closed) + Len(active) <= MaxEndRecords
    /\ prevRun = NoRun
    /\ \E ws \in Enumerations :
          /\ \A i \in 1..Len(ws) : classOf[ws[i].id] = "firefox"
          /\ closed' = CacheInit(ws).closed
          /\ active' = CacheInit(ws).active
          /\ unknown' = CacheInit(ws).unknown
    /\ pc' = "constructed"
    /\ ev' = NoEvent
    /\ cmds' = <<>>
    /\ lastSeen' = [t \in Titles |-> NoWs]
    /\ persisted' = FALSE
    /\ prevRun' = EndedRun
    /\ UNCHANGED <<file, tmp, classOf, grain>>

\* --------------------------------------------------------------- handlers
\* con.command(f'move --no-auto-back-and-forth container to workspace {ws}')
MoveCmd(id, ws) == [id |-> id, workspace |-> ws]

on_window_new_unfiltered(con) ==
    /\ ev' = Event("new", con, "firefox", 0, NoWs)
    /\ unknown' = unknown \cup {con.id}
    /\ UNCHANGED <<closed, active>>
    /\ persist

on_window_new_silent(con) ==
    IF con.window_class # "firefox"
    THEN /\ ev' = Event("new", con, "ignored", 0, NoWs)
         /\ UNCHANGED mem
         /\ no_persist
    ELSE /\ ev' = Event("new", con, "firefox", 0, NoWs)
         /\ unknown' = unknown \cup {con.id}
         /\ UNCHANGED <<closed, active>>
         /\ no_persist

\* Cache.on_window_new
on_window_new(con) ==
    IF con.window_class # "firefox"
    THEN /\ ev' = Event("new", con, "ignored", 0, NoWs)
         /\ UNCHANGED mem
         /\ no_persist
    ELSE /\ ev' = Event("new", con, "firefox", 0, NoWs)
         /\ unknown' = unknown \cup {con.id}
         /\ UNCHANGED <<closed, active>>
         /\ persist

NewActiveAssumed(con, ws) ==
    Window(con.id, con.window_instance, con.window_role, con.window_title,
           IF FirstMatch(closed, con) # 0
           THEN closed[FirstMatch(closed, con)].workspace_name
           ELSE ws)

\* the Window that on_window_title stores for an unknown id; ws is the
\* workspace the tree query returns
NewActive(con, ws) ==
    Window(con.id, con.window_instance, con.window_role, con.window_title, ws)

\* Cache.on_window_title; `actual` is what
\* i3.get_tree().find_by_id(con.id).workspace().name returns when the handler
\* asks for it, after the move command if there was one: the reply to the
\* command is not read
on_window_title(con, actual) ==
    IF con.window_class # "firefox"
    THEN /\ ev' = Event("title", con, "ignored", 0, NoWs)
         /\ cmds' = <<>>
         /\ UNCHANGED mem
         /\ no_persist
    ELSE IF con.id \in unknown
    THEN LET m == FirstMatch(closed, con)
         IN /\ ev' = Event("title", con, "unknown", m, actual)
            /\ IF m # 0
               THEN /\ cmds' = <<MoveCmd(con.id, closed[m].workspace_name)>>
                    /\ unknown' = unknown \ {con.id}
               ELSE /\ cmds' = <<>>
                    /\ UNCHANGED unknown
            /\ active' = ActiveSet(active, NewActive(con, actual))
            /\ UNCHANGED closed
            /\ persist
    ELSE IF con.id \in ActiveIds(active)
    THEN /\ ev' = Event("title", con, "active", 0, NoWs)
         /\ cmds' = <<>>
         /\ active' = [active EXCEPT
                          ![ActiveIndex(active, con.id)].window_title = con.window_title]
         /\ UNCHANGED <<closed, unknown>>
         /\ persist
    ELSE /\ ev' = Event("title", con, "absent", 0, NoWs)
         /\ cmds' = <<>>
         /\ UNCHANGED mem
         /\ no_persist

on_window_move_unknown_recorded(con, actual) ==
    IF con.window_class # "firefox"
    THEN /\ ev' = Event("move", con, "ignored", 0, actual)
         /\ UNCHANGED mem
         /\ no_persist
    ELSE IF con.id \in ActiveIds(active)
    THEN /\ ev' = Event("move", con, "active", 0, actual)
         /\ active' = [active EXCEPT
                          ![ActiveIndex(active, con.id)].workspace_name = actual]
         /\ UNCHANGED <<closed, unknown>>
         /\ persist
    ELSE /\ ev' = Event("move", con, "absent", 0, actual)
         /\ UNCHANGED mem
         /\ no_persist

\* Cache.on_window_move; `actual` is the workspace the tree shows for the
\* container
on_window_move(con, actual) ==
    IF con.window_class # "firefox"
    THEN /\ ev' = Event("move", con, "ignored", 0, actual)
         /\ UNCHANGED mem
         /\ no_persist
    ELSE IF con.id \in unknown
    THEN /\ ev' = Event("move", con, "unknown", 0, actual)
         /\ UNCHANGED mem
         /\ no_persist
    ELSE IF con.id \in ActiveIds(active)
    THEN /\ ev' = Event("move", con, "active", 0, actual)
         /\ active' = [active EXCEPT
                          ![ActiveIndex(active, con.id)].workspace_name = actual]
         /\ UNCHANGED <<closed, unknown>>
         /\ persist
    ELSE /\ ev' = Event("move", con, "absent", 0, actual)
         /\ UNCHANGED mem
         /\ no_persist

\* Cache.on_window_close, the container is in _unknown_windows
CloseUnknown(con) ==
    /\ ev' = Event("close", con, "unknown", 0, NoWs)
    /\ unknown' = unknown \ {con.id}
    /\ UNCHANGED <<closed, active>>
    /\ persist

on_window_close_absent_persists(con) ==
    IF con.window_class # "firefox"
    THEN /\ ev' = Event("close", con, "ignored", 0, NoWs)
         /\ UNCHANGED mem
         /\ no_persist
    ELSE IF con.id \in unknown
    THEN CloseUnknown(con)
    ELSE IF con.id \in ActiveIds(active)
    THEN /\ ev' = Event("close", con, "active", 0, NoWs)
         /\ active' = ActivePop(active, con.id)
         /\ closed' = Append(closed,
                         Window(None, con.window_instance, con.window_role,
                                con.window_title,
                                ActiveGet(active, con.id).workspace_name))
         /\ UNCHANGED unknown
         /\ persist
    ELSE /\ ev' = Event("close", con, "absent", 0, NoWs)
         /\ UNCHANGED mem
         /\ persist

\* Cache.on_window_close
on_window_close(con) ==
    IF con.window_class # "firefox"
    THEN /\ ev' = Event("close", con, "ignored", 0, NoWs)
         /\ UNCHANGED mem
         /\ no_persist
    ELSE IF con.id \in unknown
    THEN CloseUnknown(con)
    ELSE IF con.id \in ActiveIds(active)
    THEN /\ ev' = Event("close", con, "active", 0, NoWs)
         /\ active' = ActivePop(active, con.id)
         /\ closed' = Append(closed,
                         Window(None, con.window_instance, con.window_role,
                                con.window_title,
                                ActiveGet(active, con.id).workspace_name))
         /\ UNCHANGED unknown
         /\ persist
    ELSE /\ ev' = Event("close", con, "absent", 0, NoWs)
         /\ UNCHANGED mem
         /\ no_persist

\* ----------------------------------------------------------------- events
TitlesOf(cls) == IF cls = "firefox" THEN Titles ELSE {OtherTitle}

AllTitles == Titles \cup {OtherTitle}

\* conn.main() dispatches Event.WINDOW_NEW: the tree has a new container, whose
\* id may be one an earlier container had; on_window_new and on_window_move
\* do not read the container's title, which is left out of their events
WindowNew(id, cls) ==
    /\ pc = "idle"
    /\ classOf[id] = NoCon
    /\ classOf' = [classOf EXCEPT ![id] = cls]
    /\ on_window_new(Con(id, cls, NoTitle))
    /\ cmds' = <<>>
    /\ UNCHANGED <<grain, prevRun, lastSeen>>

\* conn.main() dispatches Event.WINDOW_TITLE
WindowTitle(id, cls, title, actual) ==
    /\ pc = "idle"
    /\ title \in TitlesOf(cls)
    /\ (cls = "firefox" /\ id \in unknown /\ id \notin ActiveIds(active))
          => Len(closed) + Len(active) < MaxRecords
    /\ classOf[id] = cls
    /\ on_window_title(Con(id, cls, title), actual)
    /\ UNCHANGED <<classOf, grain, prevRun, lastSeen>>

\* conn.main() dispatches Event.WINDOW_MOVE
WindowMove(id, cls, actual) ==
    /\ pc = "idle"
    /\ classOf[id] = cls
    /\ on_window_move(Con(id, cls, NoTitle), actual)
    /\ cmds' = <<>>
    /\ UNCHANGED <<classOf, grain, prevRun, lastSeen>>

\* the workspace a title was last seen on, after a firefox container with
\* this title has closed
SeenAfterClose(con) ==
    IF Tracked(con.id) /\ ActiveGet(active, con.id).window_title = con.window_title
    THEN [lastSeen EXCEPT ![con.window_title] = ActiveGet(active, con.id).workspace_name]
    ELSE IF Tracked(con.id)
    THEN [lastSeen EXCEPT ![con.window_title] = NoWs,
                          ![ActiveGet(active, con.id).window_title] = NoWs]
    ELSE [lastSeen EXCEPT ![con.window_title] = NoWs]

\* conn.main() dispatches Event.WINDOW_CLOSE
WindowClose(id, cls, title) ==
    /\ pc = "idle"
    /\ title \in TitlesOf(cls)
    /\ classOf[id] = cls
    /\ classOf' = [classOf EXCEPT ![id] = NoCon]
    /\ on_window_close(Con(id, cls, title))
    /\ cmds' = <<>>
    /\ lastSeen' = IF cls = "firefox" THEN SeenAfterClose(Con(id, cls, title))
                   ELSE lastSeen
    /\ UNCHANGED <<grain, prevRun>>

Events ==
    \/ \E id \in Ids, cls \in Classes : WindowNew(id, cls)
    \/ \E id \in Ids, cls \in Classes, title \in AllTitles, actual \in Workspaces :
          WindowTitle(id, cls, title, actual)
    \/ \E id \in Ids, cls \in Classes, actual \in Workspaces :
          WindowMove(id, cls, actual)
    \/ \E id \in Ids, cls \in Classes, title \in AllTitles : WindowClose(id, cls, title)

Next ==
    \/ restore
    \/ Events

Spec == Init /\ [][Next]_vars

\* the first run with all its events, a later run through startup and its
\* first event
NextRuns ==
    \/ restore
    \/ Restart
    \/ (prevRun = NoRun \/ ev.kind = "start") /\ Events

SpecRuns == Init /\ [][NextRuns]_vars

NextSteps ==
    \/ restore
    \/ Events
    \/ PersistCreate
    \/ PersistWrite
    \/ PersistReplace
    \/ PersistCleanup
    \/ PersistClose
    \/ Stop

SpecSteps == InitSteps /\ [][NextSteps]_vars

\* -------------------------------------------------------------- round trip
\* serialize() and deserialize() on their own: a Cache with no active window
\* and any closed windows, workspace None (JSON null) included.  The JSON
\* text is taken as the array of objects it denotes: json.dumps and
\* json.loads map a str to itself and None to null and back.
ArchiveRecords ==
    {Window(None, Instance, Role, t, w) : t \in Titles, w \in Workspaces \cup {NoWs}}

InitRoundTrip ==
    /\ closed \in SeqsUpTo(ArchiveRecords, MaxRecords)
    /\ active = <<>>
    /\ unknown = {}
    /\ pc = "cache"
    /\ file = Absent
    /\ tmp = Absent
    /\ classOf = [id \in Ids |-> NoCon]
    /\ grain = "handler"
    /\ ev = NoEvent
    /\ cmds = <<>>
    /\ lastSeen = [t \in Titles |-> NoWs]
    /\ persisted = FALSE
    /\ prevRun = NoRun

\* state = cache.serialize()
RoundTripSerialize ==
    /\ pc = "cache"
    /\ file' = Full(serialize(closed, active))
    /\ pc' = "serialized"
    /\ UNCHANGED <<mem, tmp, classOf, grain, prevRun, ev, cmds, lastSeen, persisted>>

\* cache.deserialize(state)
RoundTripDeserialize ==
    /\ pc = "serialized"
    /\ closed' = deserialize(closed, active, file.text)
    /\ pc' = "deserialized"
    /\ UNCHANGED <<active, unknown, file, tmp, classOf, grain, prevRun, ev, cmds,
                   lastSeen, persisted>>

NextRoundTrip ==
    \/ RoundTripSerialize
    \/ RoundTripDeserialize

SpecRoundTrip == InitRoundTrip /\ [][NextRoundTrip]_vars

\* ----------------------------------------------------------------- claims
\* a step in which a handler has run for the event ev'
EventStep == pc = "idle" /\ pc' \in {"idle", "persist"}

SameTriple(w, con) ==
    /\ w.window_instance = con.window_instance
    /\ w.window_role = con.window_role
    /\ w.window_title = con.window_title

\* the last event was a title event for an id of _unknown_windows
TitleOfUnknown == ev.kind = "title" /\ ev.branch = "unknown"

\* C1: when a tracked window with triple T has closed on workspace W and no
\* other window with triple T has closed since, the title event that gives
\* triple T to a window opened after that issues the move command naming W.
C1_MovedToLastSeen ==
    [][(EventStep /\ ev.kind = "new" /\ ev.con.window_class = "firefox"
          /\ ev'.kind = "title" /\ ev'.con.id = ev.con.id
          /\ lastSeen[ev'.con.window_title] # NoWs)
         => cmds' = <<MoveCmd(ev'.con.id, lastSeen[ev'.con.window_title])>>]_vars

\* C2: the title event for an unknown id that matches a closed window removes
\* that closed window from _closed_windows in the same handler.
C2_MatchConsumed ==
    [][(EventStep /\ ev'.kind = "title" /\ ev'.branch = "unknown" /\ ev'.match # 0)
         => /\ Len(closed') = Len(closed) - 1
            /\ \A i \in 1..Len(closed') :
                  closed'[i] = IF i < ev'.match THEN closed[i] ELSE closed[i + 1]]_vars

C4_HoldsMatchedWorkspace ==
    (TitleOfUnknown /\ ev.match # 0)
        => ActiveGet(active, ev.con.id).workspace_name
              = closed[ev.match].workspace_name

\* C4: after a title event for an unknown id that matched a closed window,
\* the active record of the id holds the workspace the tree query returned
\* after the move command, and the event's instance, role and title.
C4_HoldsQueriedWorkspace ==
    (TitleOfUnknown /\ ev.match # 0)
        => /\ ev.con.id \in ActiveIds(active)
           /\ ActiveGet(active, ev.con.id)
                 = Window(ev.con.id, ev.con.window_instance, ev.con.window_role,
                          ev.con.window_title, ev.actual)

\* the tree query returned another workspace than the move command named
C4_Witness ==
    /\ TitleOfUnknown
    /\ ev.match # 0
    /\ cmds = <<MoveCmd(ev.con.id, closed[ev.match].workspace_name)>>
    /\ ev.actual # closed[ev.match].workspace_name
    /\ ActiveGet(active, ev.con.id).workspace_name = ev.actual

\* C5: a close event for an id of _active_windows, carrying the title the
\* record holds, removes the id from _active_windows and appends one closed
\* window with the record's instance, role, title and workspace and no id.
C5_CloseArchives ==
    [][(EventStep /\ ev'.kind = "close" /\ ev'.con.window_class = "firefox"
          /\ ev'.con.id \in ActiveIds(active)
          /\ SameTriple(ActiveGet(active, ev'.con.id), ev'.con))
         => /\ ev'.con.id \notin ActiveIds(active')
            /\ closed' = Append(closed,
                  [ActiveGet(active, ev'.con.id) EXCEPT !.id = None])]_vars

\* C6: a window::new event for an id directly followed by the close event for
\* the id leaves _closed_windows as it was before the two events and the id
\* in neither _unknown_windows nor _active_windows.
C6_OpenThenClose ==
    [][/\ (EventStep /\ ev'.kind = "new") => closed' = closed
       /\ (EventStep /\ ev.kind = "new" /\ ev.con.window_class = "firefox"
             /\ ev'.kind = "close" /\ ev'.con.window_class = "firefox"
             /\ ev'.con.id = ev.con.id)
            => /\ closed' = closed
               /\ ev'.con.id \notin unknown'
               /\ ev'.con.id \notin ActiveIds(active')]_vars

\* C7: a move event for an id of _active_windows overwrites the workspace of
\* its record with the workspace the tree shows and persists; the rest of the
\* record, the other records, _unknown_windows and _closed_windows stay.
C7_MoveOverwrites ==
    [][(EventStep /\ ev'.kind = "move" /\ ev'.con.window_class = "firefox"
          /\ ev'.con.id \in ActiveIds(active))
         => /\ active' = [active EXCEPT
                  ![ActiveIndex(active, ev'.con.id)].workspace_name = ev'.actual]
            /\ closed' = closed
            /\ unknown' = unknown
            /\ file' = Full(serialize(closed', active'))]_vars

\* C8: every handler that changes _unknown_windows, _active_windows or
\* _closed_windows calls persist(), and whenever the process waits for the
\* next event after a persist() the file holds serialize() of the Cache.
C8_FileInSync ==
    [][/\ (EventStep /\ mem' # mem) => pc' = "persist"
       /\ (pc' = "idle" /\ persisted')
            => file' = Full(serialize(closed', active'))]_vars

\* on_window_new has persisted a Cache whose serialization it did not change
C8_Witness ==
    /\ pc = "idle"
    /\ persisted
    /\ ev.kind = "new"
    /\ ev.con.id \in unknown
    /\ closed \o active # <<>>
    /\ file = Full(serialize(closed, active))

\* C9: every step of persist() leaves the persistence file as it was or
\* leaves it holding the complete new serialization.
C9_NeverPartial ==
    [][(pc \in {"persist", "created", "written", "renamed", "cleaned"})
         => (file' = file \/ file' = Full(serialize(closed, active)))]_vars

\* C10: restore() with a window in _active_windows returns without an error
\* and leaves the three collections as they were, whatever the file holds.
C10_WarmStartGuard ==
    [][(pc = "constructed" /\ active # <<>>)
         => (pc' = "idle" /\ mem' = mem)]_vars

\* restore() has returned on a warm start over a file that holds records
C10_Witness ==
    /\ pc = "idle"
    /\ ev.kind = "start"
    /\ active # <<>>
    /\ closed = <<>>
    /\ file.kind = "full"
    /\ file.text # <<>>

\* C11: deserialize(serialize(S)) of a Cache with closed windows S and no
\* active window yields as many closed windows as S has, in the order of S,
\* each with the instance, role, title and workspace of its S record and
\* with id None.
C11_RoundTrip ==
    [][(pc = "serialized" /\ pc' = "deserialized")
         => /\ Len(closed') = Len(closed)
            /\ \A i \in 1..Len(closed) :
                  /\ closed'[i].id = None
                  /\ closed'[i].window_instance = closed[i].window_instance
                  /\ closed'[i].window_role = closed[i].window_role
                  /\ closed'[i].window_title = closed[i].window_title
                  /\ closed'[i].workspace_name = closed[i].workspace_name]_vars

\* a round trip of different records, one of them without a workspace
C11_Witness ==
    /\ pc = "deserialized"
    /\ Len(closed) >= 2
    /\ closed[1] # closed[2]
    /\ \E i \in 1..Len(closed) : closed[i].workspace_name = NoWs
    /\ file = Full(serialize(closed, <<>>))

\* C12: the file persist() writes holds the closed windows in list order
\* followed by the active windows in the order of _active_windows; a handler
\* adds a closed window at the end of _closed_windows and a new id at the end
\* of _active_windows, keeps the order of the ids that stay, and a title or
\* move event for an id of _active_windows leaves the id at its position.
C12_SerializationOrder ==
    [][/\ (pc' = "idle" /\ persisted')
            => /\ file'.kind = "full"
               /\ Len(file'.text) = Len(closed') + Len(active')
               /\ \A i \in 1..Len(closed') : file'.text[i] = Dict(closed'[i])
               /\ \A k \in 1..Len(active') :
                     file'.text[Len(closed') + k] = Dict(active'[k])
       /\ EventStep
            => /\ \/ closed' = closed
                  \/ /\ Len(closed') = Len(closed) + 1
                     /\ SubSeq(closed', 1, Len(closed)) = closed
               /\ \A i, j \in ActiveIds(active) \cap ActiveIds(active') :
                     ActiveIndex(active, i) < ActiveIndex(active, j)
                        => ActiveIndex(active', i) < ActiveIndex(active', j)
               /\ \A i \in ActiveIds(active') \ ActiveIds(active) :
                     ActiveIndex(active', i) = Len(active')
       /\ (EventStep /\ ev'.kind \in {"title", "move"}
             /\ ev'.con.window_class = "firefox"
             /\ ev'.con.id \in ActiveIds(active))
            => ActiveIndex(active', ev'.con.id) = ActiveIndex(active, ev'.con.id)]_vars

\* the title of the first of two active windows was updated and the file
\* holds a closed window before both
C12_Witness ==
    /\ pc = "idle"
    /\ persisted
    /\ ev.kind = "title"
    /\ ev.branch = "active"
    /\ closed # <<>>
    /\ Len(active) >= 2
    /\ active[1].id = ev.con.id
    /\ active[1].window_title # active[2].window_title
    /\ file = Full([i \in 1..Len(closed \o active) |-> Dict((closed \o active)[i])])

\* C13: a new, title, move or close event for a container whose
\* window_class is not 'firefox' leaves _unknown_windows, _active_windows,
\* _closed_windows and the file unchanged, sends no command and does not
\* call persist().
C13_OtherClassIgnored ==
    [][(EventStep /\ ev'.con.window_class # "firefox")
         => /\ mem' = mem
            /\ file' = file
            /\ tmp' = tmp
            /\ cmds' = <<>>
            /\ pc' = "idle"]_vars

\* a close event of another program's window, for an id that a closed
\* firefox window has left in _active_windows
C13_Witness ==
    /\ pc = "idle"
    /\ ev.kind = "close"
    /\ ev.con.window_class = "other"
    /\ ev.branch = "ignored"
    /\ ev.con.id \in ActiveIds(active)
    /\ unknown # {}

\* C14: restore() with no active window and no file returns without an
\* error and leaves _closed_windows, _active_windows and _unknown_windows
\* empty; with a file that cannot be read or parsed it ends in the error.
C14_MissingFileOnly ==
    [][(pc = "constructed" /\ active = <<>>)
         => /\ file = Absent
                 => /\ pc' = "idle"
                    /\ closed' = <<>>
                    /\ active' = <<>>
                    /\ unknown' = {}
            /\ (file # Absent /\ file.kind # "full")
                 => /\ pc' = "crashed"
                    /\ mem' = mem
            /\ file' = file]_vars

\* startup has completed on a cold start without a file
C14_Witness ==
    /\ pc = "idle"
    /\ ev.kind = "start"
    /\ file = Absent
    /\ closed = <<>>
    /\ active = <<>>
    /\ unknown = {}

\* C15: whenever the process waits for the next event, no id is both in
\* _unknown_windows and in _active_windows.
C15_UnknownActiveDisjoint ==
    pc = "idle" => unknown \cap ActiveIds(active) = {}

\* C16: a title event for an id of _active_windows changes the title of the
\* id's record and nothing else: the rest of the record, the other records,
\* _closed_windows and _unknown_windows stay, no closed window is looked for
\* and no command is sent.
C16_TitleOnly ==
    [][(EventStep /\ ev'.kind = "title" /\ ev'.con.window_class = "firefox"
          /\ ev'.con.id \in ActiveIds(active))
         => /\ active' = [active EXCEPT
                  ![ActiveIndex(active, ev'.con.id)].window_title = ev'.con.window_title]
            /\ closed' = closed
            /\ unknown' = unknown
            /\ ev'.match = 0
            /\ cmds' = <<>>]_vars

\* C17: a title, move or close event for a firefox container whose id is
\* neither in _unknown_windows nor in _active_windows returns without an
\* error, leaves the three collections and the file unchanged, sends no
\* command and does not call persist().
C17_AbsentIdIgnored ==
    [][(EventStep /\ ev'.kind \in {"title", "move", "close"}
          /\ ev'.con.window_class = "firefox"
          /\ ev'.con.id \notin unknown
          /\ ev'.con.id \notin ActiveIds(active))
         => /\ mem' = mem
            /\ file' = file
            /\ tmp' = tmp
            /\ cmds' = <<>>
            /\ pc' = "idle"]_vars

\* a close event for an untracked firefox window whose title a closed
\* window has, while other windows are tracked
C17_Witness ==
    /\ pc = "idle"
    /\ ev.kind = "close"
    /\ ev.con.window_class = "firefox"
    /\ ev.branch = "absent"
    /\ ev.con.id \notin unknown \cup ActiveIds(active)
    /\ \E i \in 1..Len(closed) : SameTriple(closed[i], ev.con)
    /\ active # <<>>

\* C18: a move event for an id of _unknown_windows leaves the three
\* collections and the file unchanged and does not call persist().
C18_MoveOfUnknownIgnored ==
    [][(EventStep /\ ev'.kind = "move" /\ ev'.con.window_class = "firefox"
          /\ ev'.con.id \in unknown)
         => /\ mem' = mem
            /\ file' = file
            /\ tmp' = tmp
            /\ pc' = "idle"]_vars

\* a window that has not had a title event was moved while another window
\* is active
C18_Witness ==
    /\ pc = "idle"
    /\ ev.kind = "move"
    /\ ev.branch = "unknown"
    /\ ev.con.id \in unknown
    /\ ev.con.id \notin ActiveIds(active)
    /\ active # <<>>

\* C19: when a run that has persisted ends between two events and main()
\* starts again with no firefox window to enumerate, _closed_windows after
\* restore() is the closed windows of the ended run followed by its active
\* windows, in their order and with id None.
C19_RestartArchivesActive ==
    (pc = "idle" /\ ev.kind = "start" /\ prevRun # NoRun /\ active = <<>>)
        => (prevRun.persisted => closed = prevRun.records)

\* the ended run had a closed and an active window, and both are closed
\* windows of the new run
C19_Witness ==
    /\ pc = "idle"
    /\ ev.kind = "start"
    /\ prevRun # NoRun
    /\ active = <<>>
    /\ prevRun.persisted
    /\ prevRun.closed >= 1
    /\ Len(prevRun.records) > prevRun.closed
    /\ closed = prevRun.records
    /\ closed[1] # closed[2]

\* C20: in a run that started with a firefox window enumerated, until the
\* first persist() _closed_windows is empty whatever the file holds and no
\* closed window is matched, and the first persist() leaves the file holding
\* the windows of the Cache only: the active windows and at most the one
\* closed by the event.
C20_WarmStartDropsFile ==
    [][(EventStep /\ ~persisted /\ active # <<>>)
         => /\ closed = <<>>
            /\ ev'.match = 0
            /\ cmds' = <<>>
            /\ persisted'
                 => /\ file' = Full([i \in 1..Len(closed' \o active') |->
                                        Dict((closed' \o active')[i])])
                    /\ Len(closed') <= 1
                    /\ closed' # <<>>
                         => /\ ev'.kind = "close"
                            /\ closed'[1]
                                 = Window(None, ev'.con.window_instance,
                                          ev'.con.window_role, ev'.con.window_title,
                                          ActiveGet(active, ev'.con.id).workspace_name)]_vars

\* the ended run left a closed window in the file; the new run started with
\* a window enumerated and has persisted: no entry of the file is that
\* closed window
C20_Witness ==
    /\ pc = "idle"
    /\ persisted
    /\ ev.kind = "new"
    /\ ev.branch = "firefox"
    /\ prevRun # NoRun
    /\ active # <<>>
    /\ closed = <<>>
    /\ prevRun.persisted
    /\ prevRun.closed >= 1
    /\ file.kind = "full"
    /\ Len(file.text) = Len(active)
    /\ \A i \in 1..prevRun.closed : \A k \in 1..Len(file.text) :
          file.text[k] # Dict(prevRun.records[i])

====
